---------------------------- MODULE Spec2Model ----------------------------
(***************************************************************************)
(* A model of the Plantops GraphQL MCP server (src/src/index.ts): the      *)
(* introspection schema cache, the operation handlers built on it and the  *)
(* GraphQL documents they synthesise.                                      *)
(*                                                                         *)
(* A JavaScript string is a sequence of one-character strings, so that     *)
(* trim, toLowerCase, startsWith, charAt, slice and template literals are  *)
(* computed character by character.                                        *)
(*                                                                         *)
(* Every handler is an async function: it runs without interleaving up to  *)
(* its next await of the transport, and resumes when the endpoint's        *)
(* response arrives.  One action starts a handler, one action per await    *)
(* resumes it.                                                             *)
(***************************************************************************)
EXTENDS Integers, Sequences, FiniteSets, TLC

VARIABLES
    introspectionSchema,  \* the cache slot of index.ts:73
    remote,               \* which schema the endpoint serves (stable, spec 4.2)
    calls,                \* the handler invocations, one record per slot
    fetches,              \* introspection requests issued so far
    invocations,          \* handler invocations started so far
    lastOk                \* history: the last introspection fetch that succeeded, or 0

vars == <<introspectionSchema, remote, calls, fetches, invocations, lastOk>>

(***************************************************************************)
(* Bounds of the model.                                                    *)
(***************************************************************************)
MaxInvocations == 3

(***************************************************************************)
(* Strings.                                                                *)
(***************************************************************************)
\* s.startsWith(p)
StartsWith(s, p) == Len(s) >= Len(p) /\ SubSeq(s, 1, Len(p)) = p

\* p occurs in s
Contains(s, p) ==
    \E i \in 1..(Len(s) - Len(p) + 1) : SubSeq(s, i, i + Len(p) - 1) = p

\* the number of places where p occurs in s
Occurrences(s, p) ==
    Cardinality({i \in 1..(Len(s) - Len(p) + 1) : SubSeq(s, i, i + Len(p) - 1) = p})

\* optional values: undefined, or a value
None == [some |-> FALSE]
Some(v) == [some |-> TRUE, val |-> v]


\* JavaScript null / undefined in a slot that otherwise holds an object
Null == [null |-> TRUE]

(***************************************************************************)
(* The string literals of the source.                                      *)
(***************************************************************************)
\* "Failed to get GraphQL schema: "
S_FailedToGetSchema ==
    <<"F","a","i","l","e","d"," ","t","o"," ","g","e","t"," ","G","r","a","p","h","Q","L",
      " ","s","c","h","e","m","a",":"," ">>
\* "Introspection query did not return a __schema object."
S_NoSchemaObject ==
    <<"I","n","t","r","o","s","p","e","c","t","i","o","n"," ","q","u","e","r","y"," ","d",
      "i","d"," ","n","o","t"," ","r","e","t","u","r","n"," ","a"," ","_","_","s","c","h",
      "e","m","a"," ","o","b","j","e","c","t",".">>
\* "GraphQL operation failed: "
S_GraphQLOperationFailed ==
    <<"G","r","a","p","h","Q","L"," ","o","p","e","r","a","t","i","o","n"," ","f","a","i",
      "l","e","d",":"," ">>
\* "Unknown GraphQL error"
S_UnknownGraphQLError ==
    <<"U","n","k","n","o","w","n"," ","G","r","a","p","h","Q","L"," ","e","r","r","o","r">>
\* ", "
S_CommaSpace == <<",", " ">>

(***************************************************************************)
(* Names used by the endpoints of the model.                               *)
(***************************************************************************)
N_orders == <<"o","r","d","e","r","s">>
N_Orders == <<"O","r","d","e","r","s">>
N_Profile == <<"P","r","o","f","i","l","e">>
N_Int == <<"I","n","t">>
N_String == <<"S","t","r","i","n","g">>
N_ID == <<"I","D">>
N_Float == <<"F","l","o","a","t">>
N_order_state == <<"o","r","d","e","r","_","s","t","a","t","e">>
N_query_root == <<"q","u","e","r","y","_","r","o","o","t">>
N_mutation_root == <<"m","u","t","a","t","i","o","n","_","r","o","o","t">>
N_grid == <<"g","r","i","d">>
N_id == <<"i","d">>
N_name == <<"n","a","m","e">>
N_tags == <<"t","a","g","s">>
N_profile == <<"p","r","o","f","i","l","e">>
N_state == <<"s","t","a","t","e">>
N_owner == <<"o","w","n","e","r">>
N_history == <<"h","i","s","t","o","r","y">>
N_cells == <<"c","e","l","l","s">>
N_total == <<"t","o","t","a","l">>
N_insert_orders == <<"i","n","s","e","r","t","_","o","r","d","e","r","s">>
N_missing == <<"m","i","s","s","i","n","g">>
\* messages of the endpoint's errors
M_denied == <<"d","e","n","i","e","d">>
M_busy == <<"b","u","s","y">>
M_down == <<"d","o","w","n">>

(***************************************************************************)
(* Introspection data: type references, fields, named types, schemas.      *)
(***************************************************************************)
Named(kind, name) == [kind |-> kind, name |-> name]
NonNull(t) == [kind |-> "NON_NULL", ofType |-> t]
ListOf(t) == [kind |-> "LIST", ofType |-> t]

Field(name, type) == [name |-> name, description |-> None, type |-> type, args |-> <<>>]

ObjectType(name, fields) == [name |-> name, kind |-> "OBJECT", fields |-> fields]
LeafType(kind, name) == [name |-> name, kind |-> kind]

T_Int == Named("SCALAR", N_Int)
T_String == Named("SCALAR", N_String)

\* the endpoint of spec section 8: orders {id: Int!, name: String,
\* tags: [String!]!, profile: Profile}, plus an enum column, a type with no
\* scalar-like field (Profile) and a type nested deeper than the description
\* query unrolls (grid)
SchemaA ==
    [ queryType |-> Some(N_query_root),
      mutationType |-> Some(N_mutation_root),
      subscriptionType |-> None,
      types |-> <<
        ObjectType(N_query_root,
            << Field(N_orders, NonNull(ListOf(NonNull(Named("OBJECT", N_orders))))),
               Field(N_grid, Named("OBJECT", N_grid)) >>),
        ObjectType(N_mutation_root,
            << Field(N_insert_orders, Named("OBJECT", N_orders)) >>),
        ObjectType(N_orders,
            << Field(N_id, NonNull(T_Int)),
               Field(N_name, T_String),
               Field(N_tags, NonNull(ListOf(NonNull(T_String)))),
               Field(N_profile, Named("OBJECT", N_Profile)),
               Field(N_state, NonNull(Named("ENUM", N_order_state))) >>),
        ObjectType(N_Profile,
            << Field(N_owner, NonNull(Named("OBJECT", N_orders))),
               Field(N_history, ListOf(NonNull(Named("OBJECT", N_orders)))) >>),
        ObjectType(N_grid,
            << Field(N_cells, NonNull(ListOf(NonNull(ListOf(NonNull(T_Int)))))),
               Field(N_tags, ListOf(NonNull(T_String))) >>),
        LeafType("SCALAR", N_Int),
        LeafType("SCALAR", N_String),
        LeafType("ENUM", N_order_state) >> ]

\* an endpoint with capitalised type names and no mutation root
SchemaB ==
    [ queryType |-> Some(N_query_root),
      mutationType |-> None,
      subscriptionType |-> None,
      types |-> <<
        ObjectType(N_query_root,
            << Field(N_orders, ListOf(Named("OBJECT", N_Orders))) >>),
        ObjectType(N_Orders,
            << Field(N_total, Named("SCALAR", N_Float)),
               Field(N_id, NonNull(Named("SCALAR", N_ID))) >>),
        LeafType("SCALAR", N_ID),
        LeafType("SCALAR", N_Float) >> ]

N_subscription_root ==
    <<"s","u","b","s","c","r","i","p","t","i","o","n","_","r","o","o","t">>

\* an endpoint with all three roots, whose subscription root repeats a name
\* of the query root
SchemaC ==
    [ queryType |-> Some(N_query_root),
      mutationType |-> Some(N_mutation_root),
      subscriptionType |-> Some(N_subscription_root),
      types |-> <<
        ObjectType(N_query_root,
            << Field(N_orders, ListOf(Named("OBJECT", N_orders))),
               Field(N_grid, T_Int) >>),
        ObjectType(N_mutation_root,
            << Field(N_insert_orders, Named("OBJECT", N_orders)) >>),
        ObjectType(N_subscription_root,
            << Field(N_orders, ListOf(Named("OBJECT", N_orders))) >>),
        ObjectType(N_orders, << Field(N_id, NonNull(T_Int)) >>),
        LeafType("SCALAR", N_Int) >> ]

Schemas == <<SchemaA, SchemaB, SchemaC>>

\* Array.prototype.find: the first element satisfying P, or Null (undefined)
Find(seq, P(_)) ==
    LET hits == {i \in 1..Len(seq) : P(seq[i])}
    IN  IF hits = {} THEN Null
        ELSE seq[CHOOSE i \in hits : \A j \in hits : i <= j]

\* Array.prototype.join
RECURSIVE Join(_, _)
Join(ss, sep) ==
    IF ss = <<>> THEN <<>>
    ELSE IF Len(ss) = 1 THEN ss[1]
    ELSE ss[1] \o sep \o Join(Tail(ss), sep)

(***************************************************************************)
(* The transport.  The endpoint answers a request with data, with GraphQL  *)
(* errors (graphql-request's ClientError) or not at all (any other error). *)
(***************************************************************************)
Data(v) == [kind |-> "data", data |-> v]
ClientError(errors) == [kind |-> "clientError", errors |-> errors]
OtherError(message) == [kind |-> "error", message |-> message]

ErrorResponses ==
    { ClientError(Some(<<M_denied, M_busy>>)), ClientError(None), OtherError(M_down) }

\* how an awaited call ends
Returned(v) == [ok |-> TRUE, value |-> v]
Thrown(m) == [ok |-> FALSE, message |-> m]

\* makeGqlRequest: the outcome of the request whose response is resp
makeGqlRequest(resp) ==
    IF resp.kind = "data" THEN Returned(resp.data)
    ELSE IF resp.kind = "clientError" THEN
        LET joined == IF resp.errors.some
                      THEN Join(resp.errors.val, S_CommaSpace) ELSE <<>>
            gqlErrors == IF joined # <<>> THEN joined ELSE S_UnknownGraphQLError
        IN  Thrown(S_GraphQLOperationFailed \o gqlErrors)
    ELSE Thrown(resp.message)

\* a request as handed to the transport: the document and its variables
\* (undefined, or an object: a sequence of named values)
Request(query, variables) == [query |-> query, variables |-> variables]
Var(name, value) == [name |-> name, value |-> value]

(***************************************************************************)
(* The schema cache: getIntrospectionSchema.                               *)
(***************************************************************************)
\* the __schema object that introspection fetch number id returns
SchemaObject(id) == [fetch |-> id, content |-> remote]

\* what the endpoint may answer to introspection fetch number id
IntrospectionResponses(id) ==
    { Data([schema |-> SchemaObject(id)]), Data([schema |-> Null]) } \cup ErrorResponses

\* the slip of reporting the failure without its cause
GetSchemaResume_DropsCause(resp) ==
    LET r == makeGqlRequest(resp)
    IN  IF r.ok /\ r.value.schema # Null
        THEN [cache |-> r.value.schema, out |-> Returned(r.value.schema)]
        ELSE [cache |-> Null, out |-> Thrown(S_FailedToGetSchema)]

\* the slip of caching the response (`result`) instead of `result.__schema`
GetSchemaResume_CachesResult(resp) ==
    LET r == makeGqlRequest(resp)
    IN  IF r.ok /\ r.value.schema # Null
        THEN [cache |-> r.value, out |-> Returned(r.value.schema)]
        ELSE [cache |-> Null,
              out |-> Thrown(S_FailedToGetSchema
                             \o (IF r.ok THEN S_NoSchemaObject ELSE r.message))]

\* getIntrospectionSchema after its await (lines 82-93): what it leaves in
\* the cache slot and how it ends
GetSchemaResume(resp) ==
    LET r == makeGqlRequest(resp)
    IN  IF r.ok /\ r.value.schema # Null
        THEN [cache |-> r.value.schema, out |-> Returned(r.value.schema)]
        ELSE [cache |-> Null,
              out |-> Thrown(S_FailedToGetSchema
                             \o (IF r.ok THEN S_NoSchemaObject ELSE r.message))]

\* getIntrospectionSchema up to its await (lines 76-82): TRUE when the held
\* schema is returned at once, FALSE when an introspection fetch is issued
CacheHit(cache) == cache # Null

(***************************************************************************)
(* The string literals of the handlers.                                    *)
(***************************************************************************)
\* "Table (Object type) '"
S_TableObjectType ==
    <<"T","a","b","l","e"," ","(","O","b","j","e","c","t"," ","t","y","p","e",")"," ","'">>
\* "' not found in schema."
S_NotFoundInSchema ==
    <<"'"," ","n","o","t"," ","f","o","u","n","d"," ","i","n"," ","s","c","h","e","m","a",
      ".">>
\* " query PreviewData($limit: Int!) { "
S_PreviewHead ==
    <<" ","q","u","e","r","y"," ","P","r","e","v","i","e","w","D","a","t","a","(","$","l",
      "i","m","i","t",":"," ","I","n","t","!",")"," ","{"," ">>
\* "(limit: $limit) { "
S_PreviewArgs ==
    <<"(","l","i","m","i","t",":"," ","$","l","i","m","i","t",")"," ","{"," ">>
\* " } }"
S_PreviewTail ==
    <<" ","}"," ","}">>
\* "\n          "
S_FieldSeparator ==
    <<"\n"," "," "," "," "," "," "," "," "," "," ">>
\* "__typename"
N___typename ==
    <<"_","_","t","y","p","e","n","a","m","e">>
\* "Table '"
S_Table ==
    <<"T","a","b","l","e"," ","'">>
\* "' not found in schema. Check the table name and schema."
S_NotFoundCheck ==
    <<"'"," ","n","o","t"," ","f","o","u","n","d"," ","i","n"," ","s","c","h","e","m","a",
      "."," ","C","h","e","c","k"," ","t","h","e"," ","t","a","b","l","e"," ","n","a","m",
      "e"," ","a","n","d"," ","s","c","h","e","m","a",".">>
\* "unknown"
S_unknown ==
    <<"u","n","k","n","o","w","n">>
\* "public"
S_public ==
    <<"p","u","b","l","i","c">>
\* "Cannot read properties of null (reading 'map')"
S_NullMap ==
    <<"C","a","n","n","o","t"," ","r","e","a","d"," ","p","r","o","p","e","r","t","i","e",
      "s"," ","o","f"," ","n","u","l","l"," ","(","r","e","a","d","i","n","g"," ","'","m",
      "a","p","'",")">>
\* "\n        query GetTableType($typeName: String!) { __type(na..."
S_tableTypeQuery ==
    <<"\n"," "," "," "," "," "," "," "," ","q","u","e","r","y"," ","G","e","t","T","a","b",
      "l","e","T","y","p","e","(","$","t","y","p","e","N","a","m","e",":"," ","S","t","r",
      "i","n","g","!",")"," ","{"," ","_","_","t","y","p","e","(","n","a","m","e",":"," ",
      "$","t","y","p","e","N","a","m","e",")"," ","{"," ","n","a","m","e"," ","k","i","n",
      "d"," ","d","e","s","c","r","i","p","t","i","o","n"," ","f","i","e","l","d","s"," ",
      "{"," ","n","a","m","e"," ","d","e","s","c","r","i","p","t","i","o","n"," ","t","y",
      "p","e"," ","{"," ","k","i","n","d"," ","n","a","m","e"," ","o","f","T","y","p","e",
      " ","{"," ","k","i","n","d"," ","n","a","m","e"," ","o","f","T","y","p","e"," ","{",
      " ","k","i","n","d"," ","n","a","m","e"," ","o","f","T","y","p","e"," ","{"," ","k",
      "i","n","d"," ","n","a","m","e"," ","}"," ","}"," ","}"," ","}"," ","a","r","g","s",
      " ","{"," ","n","a","m","e"," ","d","e","s","c","r","i","p","t","i","o","n"," ","t",
      "y","p","e"," ","{"," ","k","i","n","d"," ","n","a","m","e"," ","o","f","T","y","p",
      "e"," ","{"," ","k","i","n","d"," ","n","a","m","e"," ","}"," ","}"," ","}"," ","}",
      " ","}"," ","}","\n"," "," "," "," ">>

LowerLetters ==
    <<"a","b","c","d","e","f","g","h","i","j","k","l","m",
      "n","o","p","q","r","s","t","u","v","w","x","y","z">>
UpperLetters ==
    <<"A","B","C","D","E","F","G","H","I","J","K","L","M",
      "N","O","P","Q","R","S","T","U","V","W","X","Y","Z">>

\* String.prototype.toUpperCase and toLowerCase, on ASCII text
UpperChar(ch) ==
    IF \E i \in 1..26 : LowerLetters[i] = ch
    THEN UpperLetters[CHOOSE i \in 1..26 : LowerLetters[i] = ch] ELSE ch
LowerChar(ch) ==
    IF \E i \in 1..26 : UpperLetters[i] = ch
    THEN LowerLetters[CHOOSE i \in 1..26 : UpperLetters[i] = ch] ELSE ch
toUpperCase(s) == [i \in 1..Len(s) |-> UpperChar(s[i])]
toLowerCase(s) == [i \in 1..Len(s) |-> LowerChar(s[i])]

\* s.charAt(0) and s.slice(1)
charAt0(s) == IF s = <<>> THEN <<>> ELSE <<s[1]>>
slice1(s) == IF s = <<>> THEN <<>> ELSE Tail(s)

(***************************************************************************)
(* Handler invocations.                                                    *)
(***************************************************************************)
Pending == [status |-> "pending"]
Ok(v) == [status |-> "ok", value |-> v]
Failed(m) == [status |-> "error", message |-> m]

Idle ==
    [op |-> "none", args |-> None, pc |-> "idle", afterLoaded |-> FALSE, nfetch |-> 0,
     fetchId |-> 0, schema |-> Null, selection |-> <<>>, sent |-> <<>>, answers |-> <<>>,
     result |-> Pending]

\* the record of a handler that has just been invoked
Fresh(op, args) ==
    [Idle EXCEPT !.op = op, !.args = args, !.pc = "start", !.afterLoaded = (lastOk # 0)]

\* a handler ends
Finish(call, result) == [call EXCEPT !.pc = "done", !.result = result]

\* history: the handler's awaited request is answered with resp
Answered(call, resp) == [call EXCEPT !.answers = Append(@, resp)]

\* a handler hands a request to the transport and awaits it at pc
Send(call, request, pc) == [call EXCEPT !.pc = pc, !.sent = Append(@, request)]

(***************************************************************************)
(* The resource plantops:/schema (lines 100-110).                          *)
(***************************************************************************)
ReadSchemaWithSchema(call, schema) ==
    Finish([call EXCEPT !.schema = schema], Ok(schema))

(***************************************************************************)
(* preview_table_data (lines 244-261).                                     *)
(***************************************************************************)
\* the slip of looking at the outermost layer only
UnwrappedKind_TopLevel(currentType) == currentType.kind

\* line 251: the kind left when every NON_NULL and LIST layer is taken off
RECURSIVE UnwrappedKind(_)
UnwrappedKind(currentType) ==
    IF currentType.kind = "NON_NULL" \/ currentType.kind = "LIST"
    THEN UnwrappedKind(currentType.ofType)
    ELSE currentType.kind

\* lines 251-255: the names of the scalar fields, or the fallback
ScalarFields(tableType) ==
    LET kept == SelectSeq(tableType.fields,
                          LAMBDA f : UnwrappedKind(f.type) \in {"SCALAR", "ENUM"})
        names == [i \in 1..Len(kept) |-> kept[i].name]
    IN  IF Len(names) = 0 THEN <<N___typename>> ELSE names

\* line 257: the preview document
PreviewQuery(tableName, scalarFields) ==
    S_PreviewHead \o tableName \o S_PreviewArgs
        \o Join(scalarFields, S_FieldSeparator) \o S_PreviewTail

\* lines 247-259: the handler once it holds the schema
PreviewWithSchema(call, schema) ==
    LET tableName == call.args.tableName
        tableType == Find(Schemas[schema.content].types,
                          LAMBDA t : t.name = tableName /\ t.kind = "OBJECT")
    IN  IF tableType = Null
        THEN Finish([call EXCEPT !.schema = schema],
                    Failed(S_TableObjectType \o tableName \o S_NotFoundInSchema))
        ELSE Send([call EXCEPT !.schema = schema,
                               !.selection = ScalarFields(tableType)],
                  Request(PreviewQuery(tableName, ScalarFields(tableType)),
                          Some(<<Var("limit", call.args.limit)>>)),
                  "awaitPreview")

\* lines 259-260: the handler after the data request
PreviewResume(call, resp) ==
    LET r == makeGqlRequest(resp)
    IN  Finish(call, IF r.ok THEN Ok(r.value) ELSE Failed(r.message))

(***************************************************************************)
(* describe_table (lines 346-392).                                         *)
(***************************************************************************)
\* the number of type levels the description query asks for (line 350:
\* type { .. ofType { .. ofType { .. ofType { kind name } } } })
TypeDepth == 4

\* a type reference as the description query returns it: kind and name at
\* every level, ofType only as deep as the query unrolls it
RECURSIVE ReturnedTypeRef(_, _)
ReturnedTypeRef(t, depth) ==
    IF depth = 0 THEN Null
    ELSE IF t.kind \in {"NON_NULL", "LIST"}
    THEN [kind |-> t.kind, name |-> None, ofType |-> ReturnedTypeRef(t.ofType, depth - 1)]
    ELSE [kind |-> t.kind, name |-> Some(t.name), ofType |-> Null]

\* the endpoint's __type(name: typeName) in the shape of the description query
DescribedType(typeName) ==
    LET t == Find(Schemas[remote].types, LAMBDA x : x.name = typeName)
    IN  IF t = Null THEN Null
        ELSE [name |-> t.name, kind |-> t.kind, description |-> None,
              fields |-> IF t.kind = "OBJECT"
                         THEN Some([i \in 1..Len(t.fields) |->
                                [name |-> t.fields[i].name,
                                 description |-> None,
                                 type |-> ReturnedTypeRef(t.fields[i].type, TypeDepth),
                                 args |-> <<>>]])
                         ELSE None]

DescribeResponses(typeName) ==
    { Data([type |-> DescribedType(typeName)]) } \cup ErrorResponses

\* lines 363-378: the loop over the wrappers of a column's type
RECURSIVE WalkType(_, _, _)
WalkType(typeInfo, isNonNull, isList) ==
    IF typeInfo = Null
    THEN [typeString |-> <<>>, isNonNull |-> isNonNull, isList |-> isList]
    ELSE IF typeInfo.kind = "NON_NULL" THEN WalkType(typeInfo.ofType, TRUE, isList)
    ELSE IF typeInfo.kind = "LIST" THEN WalkType(typeInfo.ofType, isNonNull, TRUE)
    ELSE [typeString |-> IF typeInfo.name.some /\ typeInfo.name.val # <<>>
                         THEN typeInfo.name.val ELSE S_unknown,
          isNonNull |-> isNonNull, isList |-> isList]

\* lines 363-387: the type text of a column
FullTypeString(type) ==
    LET w == WalkType(type, FALSE, FALSE)
        listed == IF w.isList THEN <<"[">> \o w.typeString \o <<"]">> ELSE w.typeString
    IN  IF w.isNonNull THEN listed \o <<"!">> ELSE listed

\* line 388: one column
ColumnInfo(field) ==
    [name |-> field.name, type |-> FullTypeString(field.type),
     description |-> field.description, args |-> None]

\* String.prototype.localeCompare(a, b) < 0 on names made of ASCII letters
\* and "_": letters in alphabetical order whatever their case, "_" before
\* them, a shorter name before its extensions, and lower case before upper
\* case between names that differ in case only
LetterRank(ch) ==
    LET l == LowerChar(ch)
    IN  IF \E i \in 1..26 : LowerLetters[i] = l
        THEN CHOOSE i \in 1..26 : LowerLetters[i] = l ELSE 0
RECURSIVE PrimaryCompare(_, _)
PrimaryCompare(a, b) ==
    IF a = <<>> /\ b = <<>> THEN 0
    ELSE IF a = <<>> THEN -1
    ELSE IF b = <<>> THEN 1
    ELSE IF LetterRank(Head(a)) < LetterRank(Head(b)) THEN -1
    ELSE IF LetterRank(Head(a)) > LetterRank(Head(b)) THEN 1
    ELSE PrimaryCompare(Tail(a), Tail(b))
RECURSIVE CaseCompare(_, _)
CaseCompare(a, b) ==
    IF a = <<>> \/ b = <<>> THEN 0
    ELSE IF Head(a) = Head(b) THEN CaseCompare(Tail(a), Tail(b))
    ELSE IF Head(a) = LowerChar(Head(a)) THEN -1 ELSE 1
localeCompare(a, b) ==
    IF PrimaryCompare(a, b) # 0 THEN PrimaryCompare(a, b) ELSE CaseCompare(a, b)

\* line 390: columnsInfo.sort by name
RECURSIVE InsertColumn(_, _)
InsertColumn(col, sorted) ==
    IF sorted = <<>> THEN <<col>>
    ELSE IF localeCompare(col.name, Head(sorted).name) < 0 THEN <<col>> \o sorted
    ELSE <<Head(sorted)>> \o InsertColumn(col, Tail(sorted))
RECURSIVE SortColumns(_)
SortColumns(cols) ==
    IF cols = <<>> THEN <<>>
    ELSE InsertColumn(cols[Len(cols)], SortColumns(SubSeq(cols, 1, Len(cols) - 1)))

\* lines 362-391: the result built from the type found
DescribeResult(call, type) ==
    IF ~type.fields.some THEN Failed(S_NullMap)
    ELSE Ok([table |->
                [name |-> call.args.tableName,
                 schema |-> call.args.schemaName,
                 description |-> type.description,
                 columns |-> SortColumns([i \in 1..Len(type.fields.val) |->
                                             ColumnInfo(type.fields.val[i])])]])

\* the slip of upper-casing the whole name
PascalCaseName_AllUpper(tableName) == toUpperCase(tableName)

\* line 355: the name with its first character upper-cased
PascalCaseName(tableName) == toUpperCase(charAt0(tableName)) \o slice1(tableName)

\* lines 348-352: the handler once it holds the schema
DescribeWithSchema(call, schema) ==
    Send([call EXCEPT !.schema = schema],
         Request(S_tableTypeQuery, Some(<<Var("typeName", call.args.tableName)>>)),
         "awaitDescribe")

\* lines 352-361, first attempt answered
DescribeResume(call, resp) ==
    LET r == makeGqlRequest(resp)
    IN  IF ~r.ok THEN Finish(call, Failed(r.message))
        ELSE IF r.value.type = Null
        THEN Send(call,
                  Request(S_tableTypeQuery,
                          Some(<<Var("typeName", PascalCaseName(call.args.tableName))>>)),
                  "awaitRetry")
        ELSE Finish(call, DescribeResult(call, r.value.type))

\* lines 356-361, second attempt answered
DescribeRetryResume(call, resp) ==
    LET r == makeGqlRequest(resp)
    IN  IF ~r.ok THEN Finish(call, Failed(r.message))
        ELSE IF r.value.type = Null
        THEN Finish(call, Failed(S_Table \o call.args.tableName \o S_NotFoundCheck))
        ELSE Finish(call, DescribeResult(call, r.value.type))

(***************************************************************************)
(* The string literals of run_graphql_query, run_graphql_mutation and      *)
(* aggregate_data.                                                         *)
(***************************************************************************)
\* "mutation"
S_mutation ==
    <<"m","u","t","a","t","i","o","n">>
\* "This tool only supports read-only queries..."
S_ReadOnlyOnly ==
    <<"T","h","i","s"," ","t","o","o","l"," ","o","n","l","y"," ","s","u","p","p","o","r",
      "t","s"," ","r","e","a","d","-","o","n","l","y"," ","q","u","e","r","i","e","s",".",
      ".",".">>
\* "The provided string does not appear to be a mutation..."
S_NotAMutation ==
    <<"T","h","e"," ","p","r","o","v","i","d","e","d"," ","s","t","r","i","n","g"," ","d",
      "o","e","s"," ","n","o","t"," ","a","p","p","e","a","r"," ","t","o"," ","b","e"," ",
      "a"," ","m","u","t","a","t","i","o","n",".",".",".">>
\* "The 'field' parameter is required for '"
S_FieldRequiredFor ==
    <<"T","h","e"," ","'","f","i","e","l","d","'"," ","p","a","r","a","m","e","t","e","r",
      " ","i","s"," ","r","e","q","u","i","r","e","d"," ","f","o","r"," ","'">>
\* "'field' parameter is missing for '"
S_FieldMissingFor ==
    <<"'","f","i","e","l","d","'"," ","p","a","r","a","m","e","t","e","r"," ","i","s"," ",
      "m","i","s","s","i","n","g"," ","f","o","r"," ","'">>
\* "' aggregation."
S_Aggregation ==
    <<"'"," ","a","g","g","r","e","g","a","t","i","o","n",".">>
\* "_aggregate"
S__aggregate ==
    <<"_","a","g","g","r","e","g","a","t","e">>
\* "_bool_exp"
S__bool_exp ==
    <<"_","b","o","o","l","_","e","x","p">>
\* "{ count }"
S_CountSelection ==
    <<"{"," ","c","o","u","n","t"," ","}">>
\* "($filter: "
S_FilterDefHead ==
    <<"(","$","f","i","l","t","e","r",":"," ">>
\* "!)"
S_FilterDefTail ==
    <<"!",")">>
\* "where: $filter"
S_WhereFilter ==
    <<"w","h","e","r","e",":"," ","$","f","i","l","t","e","r">>
\* " \n      query AggregateData "
S_AggregateHead ==
    <<" ","\n"," "," "," "," "," "," ","q","u","e","r","y"," ","A","g","g","r","e","g","a",
      "t","e","D","a","t","a"," ">>
\* " {\n        "
S_AggregateOpen ==
    <<" ","{","\n"," "," "," "," "," "," "," "," ">>
\* ") {\n          aggregate "
S_AggregateBody ==
    <<")"," ","{","\n"," "," "," "," "," "," "," "," "," "," ","a","g","g","r","e","g","a",
      "t","e"," ">>
\* "\n        }\n      }\n    "
S_AggregateTail ==
    <<"\n"," "," "," "," "," "," "," "," ","}","\n"," "," "," "," "," "," ","}","\n"," ",
      " "," "," ">>
\* "count"
F_count ==
    <<"c","o","u","n","t">>
\* "sum"
F_sum ==
    <<"s","u","m">>
\* "avg"
F_avg ==
    <<"a","v","g">>
\* "min"
F_min ==
    <<"m","i","n">>
\* "max"
F_max ==
    <<"m","a","x">>

\* documents handed to run_graphql_query and run_graphql_mutation
D_mutation == <<"m","u","t","a","t","i","o","n","{","a","}">>
D_MutationSpaced == <<" ","M","u","t","a","t","i","o","n"," ","M"," ","{","a","}","\n">>
D_MUTATION == <<"\t","M","U","T","A","T","I","O","N">>
D_query == <<"q","u","e","r","y","{","a","}">>
D_shorthand == <<"{","a","}">>
D_mutatio == <<"m","u","t","a","t","i","o">>
D_empty == <<>>
D_blank == <<" ","\n">>
D_commented == <<"#","\n","m","u","t","a","t","i","o","n","{","a","}">>
D_mutations == <<"m","u","t","a","t","i","o","n","s">>
D_queryNamedMutation == <<"q","u","e","r","y"," ","m","u","t","a","t","i","o","n","{","a","}">>
Documents ==
    { D_mutation, D_MutationSpaced, D_MUTATION, D_query, D_shorthand, D_mutatio,
      D_empty, D_blank, D_commented, D_mutations, D_queryNamedMutation }

\* String.prototype.trim, with the white space of ASCII text
IsSpace(ch) == ch \in {" ", "\t", "\n", "\r"}
RECURSIVE trimStart(_)
trimStart(s) == IF s # <<>> /\ IsSpace(Head(s)) THEN trimStart(Tail(s)) ELSE s
RECURSIVE trimEnd(_)
trimEnd(s) ==
    IF s # <<>> /\ IsSpace(s[Len(s)]) THEN trimEnd(SubSeq(s, 1, Len(s) - 1)) ELSE s
trim(s) == trimEnd(trimStart(s))

(***************************************************************************)
(* run_graphql_query (lines 122-129) and run_graphql_mutation (138-145).   *)
(***************************************************************************)
\* the slip of testing the text as given, white space included
LooksLikeMutation_NoTrim(text) == StartsWith(toLowerCase(text), S_mutation)

\* lines 124 and 140: text.trim().toLowerCase().startsWith('mutation')
LooksLikeMutation(text) == StartsWith(toLowerCase(trim(text)), S_mutation)

\* lines 124-127: run_graphql_query up to its await
RunQueryStart(call) ==
    IF LooksLikeMutation(call.args.query)
    THEN Finish(call, Failed(S_ReadOnlyOnly))
    ELSE Send(call, Request(call.args.query, call.args.variables), "awaitQuery")

\* lines 140-143: run_graphql_mutation up to its await
RunMutationStart(call) ==
    IF ~LooksLikeMutation(call.args.mutation)
    THEN Finish(call, Failed(S_NotAMutation))
    ELSE Send(call, Request(call.args.mutation, call.args.variables), "awaitMutation")

\* lines 127-128 and 143-144: the raw result is the payload
RunResume(call, resp) ==
    LET r == makeGqlRequest(resp)
    IN  Finish(call, IF r.ok THEN Ok(r.value) ELSE Failed(r.message))

(***************************************************************************)
(* aggregate_data (lines 272-309).                                         *)
(***************************************************************************)
\* the slip of testing `field === undefined` only
TruthyString_DefinedOnly(s) == s.some

\* the truth value of an optional string: undefined and "" are falsy
TruthyString(s) == s.some /\ s.val # <<>>

\* lines 281-288: the selection under `aggregate`, None where the code throws
AggregateSelection(aggregateFunction, field) ==
    IF aggregateFunction = F_count THEN Some(S_CountSelection)
    ELSE IF TruthyString(field)
    THEN Some(<<"{", " ">> \o aggregateFunction \o <<" ", "{", " ">>
                  \o field.val \o <<" ", "}", " ", "}">>)
    ELSE None

\* lines 289-298: the aggregate document
AggregateQuery(tableName, aggregateSelection, filter) ==
    LET aggregateTableName == tableName \o S__aggregate
        boolExpTypeName == tableName \o S__bool_exp
        filterVariableDefinition ==
            IF filter.some THEN S_FilterDefHead \o boolExpTypeName \o S_FilterDefTail
            ELSE <<>>
        whereClause == IF filter.some THEN S_WhereFilter ELSE <<>>
    IN  S_AggregateHead \o filterVariableDefinition \o S_AggregateOpen
            \o aggregateTableName \o <<"(">> \o whereClause \o S_AggregateBody
            \o aggregateSelection \o S_AggregateTail

\* the slip of sending no variables for a filter without keys
AggregateVariables_EmptyFilterDropped(filter) ==
    IF filter.some /\ filter.val # <<>> THEN Some(<<Var("filter", filter.val)>>)
    ELSE Some(<<>>)

\* line 299: the variables sent with it
AggregateVariables(filter) ==
    IF filter.some THEN Some(<<Var("filter", filter.val)>>) ELSE Some(<<>>)

\* lines 274-300: aggregate_data up to its await
AggregateStart(call) ==
    LET a == call.args
        selection == AggregateSelection(a.aggregateFunction, a.field)
    IN  IF a.aggregateFunction # F_count /\ ~TruthyString(a.field)
        THEN Finish(call, Failed(S_FieldRequiredFor \o a.aggregateFunction \o S_Aggregation))
        ELSE IF ~selection.some
        THEN Finish(call, Failed(S_FieldMissingFor \o a.aggregateFunction \o S_Aggregation))
        ELSE Send(call,
                  Request(AggregateQuery(a.tableName, selection.val, a.filter),
                          AggregateVariables(a.filter)),
                  "awaitAggregate")

\* a response object: the entry under key, or Null
Lookup(object, key) ==
    LET e == Find(object, LAMBDA x : x.key = key)
    IN  IF e = Null THEN Null ELSE e.value

\* lines 300-308: aggregate_data after its await
AggregateResume(call, resp) ==
    LET r == makeGqlRequest(resp)
        root == Lookup(r.value, call.args.tableName \o S__aggregate)
    IN  IF ~r.ok THEN Finish(call, Failed(r.message))
        ELSE IF root # Null /\ root.aggregate # Null
        THEN Finish(call, Ok(root.aggregate))
        ELSE Finish(call, Ok(r.value))

(***************************************************************************)
(* health_check (lines 317-337).                                           *)
(***************************************************************************)
\* "Health endpoint "
S_HealthEndpoint ==
    <<"H","e","a","l","t","h"," ","e","n","d","p","o","i","n","t"," ">>

\* " status: "
S_Status ==
    <<" ","s","t","a","t","u","s",":"," ">>

\* "query HealthCheck { __typename }"
S_HealthCheckQuery ==
    <<"q","u","e","r","y"," ","H","e","a","l","t","h","C","h","e","c","k"," ","{"," ","_",
      "_","t","y","p","e","n","a","m","e"," ","}">>

\* "GraphQL endpoint "
S_GraphQLEndpoint ==
    <<"G","r","a","p","h","Q","L"," ","e","n","d","p","o","i","n","t"," ">>

\* " is responsive. Result: "
S_IsResponsive ==
    <<" ","i","s"," ","r","e","s","p","o","n","s","i","v","e","."," ","R","e","s","u","l",
      "t",":"," ">>

\* "Health check successful. "
S_HealthCheckSuccessful ==
    <<"H","e","a","l","t","h"," ","c","h","e","c","k"," ","s","u","c","c","e","s","s","f",
      "u","l","."," ">>

\* "Health check failed: "
S_HealthCheckFailed ==
    <<"H","e","a","l","t","h"," ","c","h","e","c","k"," ","f","a","i","l","e","d",":"," ">>

\* config.endpointUrl of a sample deployment
PLANTOPS_ENDPOINT ==
    <<"h","t","t","p",":","/","/","p","l","a","n","t","o","p","s","/","v","1","/","g","r",
      "a","p","h","q","l">>

\* a health URL a caller may give
U_healthz ==
    <<"h","t","t","p",":","/","/","p","l","a","n","t","o","p","s","/","h","e","a","l","t",
      "h","z">>

\* status texts and a transport failure of the HTTP GET
M_OK ==
    <<"O","K">>
M_ServiceUnavailable ==
    <<"S","e","r","v","i","c","e"," ","U","n","a","v","a","i","l","a","b","l","e">>
M_NotFound ==
    <<"N","o","t"," ","F","o","u","n","d">>
M_fetch_failed ==
    <<"f","e","t","c","h"," ","f","a","i","l","e","d">>

\* a number in a template literal: its decimal digits
DecimalDigits == <<"0", "1", "2", "3", "4", "5", "6", "7", "8", "9">>
RECURSIVE NumberToString(_)
NumberToString(n) ==
    IF n < 10 THEN <<DecimalDigits[n + 1]>>
    ELSE NumberToString(n \div 10) \o <<DecimalDigits[(n % 10) + 1]>>

\* JSON.stringify of an object whose values are strings without escapes
JSONStringify(object) ==
    <<"{">> \o Join([i \in 1..Len(object) |->
                        <<"\"">> \o object[i].key \o <<"\"", ":", "\"">>
                            \o object[i].value \o <<"\"">>],
                    <<",">>)
            \o <<"}">>

\* the Response of fetch: ok is true for the statuses 200..299
Response(status, statusText) ==
    [kind |-> "response", status |-> status, statusText |-> statusText,
     ok |-> (status >= 200 /\ status <= 299)]

\* the slip of letting the failure out of the handler
HealthCatch_Rethrows(call, message) == Finish(call, Failed(message))

\* lines 333-336: the catch block turns any failure into a returned payload
HealthCatch(call, message) ==
    Finish(call, Ok([text |-> S_HealthCheckFailed \o message, isError |-> Some(FALSE)]))

\* line 332: the payload of a success
HealthReturn(call, resultText) ==
    Finish(call, Ok([text |-> S_HealthCheckSuccessful \o resultText, isError |-> None]))

\* lines 319-329: health_check up to its await
HealthStart(call) ==
    IF TruthyString(call.args.healthEndpointUrl)
    THEN Send(call, [url |-> call.args.healthEndpointUrl.val, method |-> "GET"],
              "awaitHealthFetch")
    ELSE Send(call, Request(S_HealthCheckQuery, None), "awaitHealthProbe")

\* lines 323-325 and 332-336: after the HTTP GET
HealthFetchResume(call, resp) ==
    IF resp.kind # "response" THEN HealthCatch(call, resp.message)
    ELSE LET resultText == S_HealthEndpoint \o call.args.healthEndpointUrl.val
                               \o S_Status \o NumberToString(resp.status)
                               \o <<" ">> \o resp.statusText
         IN  IF ~resp.ok THEN HealthCatch(call, resultText)
             ELSE HealthReturn(call, resultText)

\* lines 329-336: after the GraphQL probe
HealthProbeResume(call, resp) ==
    LET r == makeGqlRequest(resp)
    IN  IF ~r.ok THEN HealthCatch(call, r.message)
        ELSE HealthReturn(call, S_GraphQLEndpoint \o PLANTOPS_ENDPOINT
                                    \o S_IsResponsive \o JSONStringify(r.value))

(***************************************************************************)
(* list_root_fields (lines 192-210).                                       *)
(***************************************************************************)
\* "No description."
S_NoDescription ==
    <<"N","o"," ","d","e","s","c","r","i","p","t","i","o","n",".">>

\* the argument fieldType: omitted, or one of the three operation kinds
FieldTypes == {None, Some("QUERY"), Some("MUTATION"), Some("SUBSCRIPTION")}

\* lines 197-198: the fields of the root type named rootName (`root?.fields || []`)
RootFields(schema, rootName) ==
    LET root == Find(schema.types, LAMBDA t : t.name = rootName)
    IN  IF root = Null THEN <<>>
        ELSE IF "fields" \in DOMAIN root THEN root.fields ELSE <<>>

\* lines 196, 200, 204: what one root adds to `fields`
Collected(schema, fieldType, kind, rootType) ==
    IF (~fieldType.some \/ fieldType.val = kind) /\ rootType.some
    THEN RootFields(schema, rootType.val)
    ELSE <<>>

\* lines 195-208: the listing
FieldInfo(schema, fieldType) ==
    LET fields == Collected(schema, fieldType, "QUERY", schema.queryType)
                    \o Collected(schema, fieldType, "MUTATION", schema.mutationType)
                    \o Collected(schema, fieldType, "SUBSCRIPTION", schema.subscriptionType)
    IN  SortColumns([i \in 1..Len(fields) |->
                        [name |-> fields[i].name,
                         description |-> IF fields[i].description.some
                                            /\ fields[i].description.val # <<>>
                                         THEN fields[i].description.val
                                         ELSE S_NoDescription]])

\* lines 195-209: the handler once it holds the schema
ListRootFieldsWithSchema(call, schema) ==
    Finish([call EXCEPT !.schema = schema],
           Ok(FieldInfo(Schemas[schema.content], call.args.fieldType)))

(***************************************************************************)
(* The server: handlers invoked by the host, run concurrently over the one *)
(* cache slot, and the endpoint answering their requests.                  *)
(***************************************************************************)
\* inputs of the handlers
PreviewTables == {N_orders, N_Orders, N_Profile, N_Int, N_missing}
PreviewLimits == {1, 5}
DescribeTables == {N_orders, N_Orders, N_profile, N_grid, N_Int, N_missing}
RunVariables == {None, Some(<<Var("id", 1)>>)}
AggregateTables == {N_orders, N_Profile}
AggregateFunctions == {F_count, F_sum, F_avg, F_min, F_max}
AggregateFields == {None, Some(<<>>), Some(N_id), Some(N_total)}
AggregateFilters == {None, Some(<<>>), Some(<<Var("state", "paid")>>)}

\* what the endpoint may answer to a document of the caller's
RunResponses == { Data(<<Var("a", 1)>>) } \cup ErrorResponses

\* what the endpoint may answer to a preview document
PreviewResponses == { Data(<<Var("rows", <<>>)>>) } \cup ErrorResponses

\* what the endpoint may answer to an aggregate document on root
AggregateResponses(root) ==
    { Data(<<[key |-> root, value |-> [aggregate |-> [count |-> 3]]]>>),
      Data(<<[key |-> root, value |-> [aggregate |-> Null]]>>),
      Data(<<>>) } \cup ErrorResponses

\* the host may invoke a handler in slot c
CanInvoke(c) ==
    /\ calls[c].pc \in {"idle", "done"}
    /\ invocations < MaxInvocations

\* the rest of a handler that starts with `await getIntrospectionSchema()`,
\* from the moment the schema is returned to its next await
WithSchema(call, schema) ==
    CASE call.op = "resource" -> ReadSchemaWithSchema(call, schema)
      [] call.op = "preview" -> PreviewWithSchema(call, schema)
      [] call.op = "describe" -> DescribeWithSchema(call, schema)
      [] call.op = "rootFields" -> ListRootFieldsWithSchema(call, schema)

\* a handler is invoked and runs up to its first await: getIntrospectionSchema
\* returns the held schema (line 77) or issues the introspection fetch (line 82)
InvokeWithSchema(c, op, args) ==
    /\ CanInvoke(c)
    /\ invocations' = invocations + 1
    /\ IF CacheHit(introspectionSchema)
       THEN /\ calls' = [calls EXCEPT ![c] = WithSchema(Fresh(op, args), introspectionSchema)]
            /\ fetches' = fetches
       ELSE /\ calls' = [calls EXCEPT ![c] =
                            [Fresh(op, args) EXCEPT !.pc = "awaitSchema", !.nfetch = 1,
                                                    !.fetchId = fetches + 1]]
            /\ fetches' = fetches + 1
    /\ UNCHANGED <<introspectionSchema, remote, lastOk>>

ReadSchema(c) == InvokeWithSchema(c, "resource", None)

PreviewTableData(c, tables, limits) ==
    \E tableName \in tables, limit \in limits :
        InvokeWithSchema(c, "preview", [tableName |-> tableName, limit |-> limit])

DescribeTable(c, tables) ==
    \E tableName \in tables :
        InvokeWithSchema(c, "describe", [tableName |-> tableName, schemaName |-> S_public])

ListRootFields(c) ==
    \E fieldType \in FieldTypes :
        InvokeWithSchema(c, "rootFields", [fieldType |-> fieldType])

\* the introspection fetch of call c is answered: lines 82-93, then the
\* handler up to its next await
IntrospectionAnswered(c) ==
    /\ calls[c].pc = "awaitSchema"
    /\ \E resp \in IntrospectionResponses(calls[c].fetchId) :
        LET g == GetSchemaResume(resp)
        IN  /\ introspectionSchema' = g.cache
            /\ calls' = [calls EXCEPT ![c] =
                            IF g.out.ok THEN WithSchema(Answered(calls[c], resp), g.out.value)
                            ELSE Finish(Answered(calls[c], resp), Failed(g.out.message))]
            /\ lastOk' = IF g.out.ok THEN calls[c].fetchId ELSE lastOk
    /\ UNCHANGED <<remote, fetches, invocations>>

PreviewAnswered(c) ==
    /\ calls[c].pc = "awaitPreview"
    /\ \E resp \in PreviewResponses :
        calls' = [calls EXCEPT ![c] = PreviewResume(Answered(calls[c], resp), resp)]
    /\ UNCHANGED <<introspectionSchema, remote, fetches, invocations, lastOk>>

DescribeAnswered(c) ==
    /\ calls[c].pc = "awaitDescribe"
    /\ \E resp \in DescribeResponses(calls[c].sent[1].variables.val[1].value) :
        calls' = [calls EXCEPT ![c] = DescribeResume(Answered(calls[c], resp), resp)]
    /\ UNCHANGED <<introspectionSchema, remote, fetches, invocations, lastOk>>

DescribeRetryAnswered(c) ==
    /\ calls[c].pc = "awaitRetry"
    /\ \E resp \in DescribeResponses(calls[c].sent[2].variables.val[1].value) :
        calls' = [calls EXCEPT ![c] = DescribeRetryResume(Answered(calls[c], resp), resp)]
    /\ UNCHANGED <<introspectionSchema, remote, fetches, invocations, lastOk>>

RunGraphqlQuery(c) ==
    /\ CanInvoke(c)
    /\ invocations' = invocations + 1
    /\ \E query \in Documents, variables \in RunVariables :
        calls' = [calls EXCEPT ![c] =
                    RunQueryStart(Fresh("query", [query |-> query, variables |-> variables]))]
    /\ UNCHANGED <<introspectionSchema, remote, fetches, lastOk>>

RunGraphqlMutation(c) ==
    /\ CanInvoke(c)
    /\ invocations' = invocations + 1
    /\ \E mutation \in Documents, variables \in RunVariables :
        calls' = [calls EXCEPT ![c] =
                    RunMutationStart(Fresh("mutation",
                                           [mutation |-> mutation, variables |-> variables]))]
    /\ UNCHANGED <<introspectionSchema, remote, fetches, lastOk>>

QueryAnswered(c) ==
    /\ calls[c].pc = "awaitQuery"
    /\ \E resp \in RunResponses :
        calls' = [calls EXCEPT ![c] = RunResume(Answered(calls[c], resp), resp)]
    /\ UNCHANGED <<introspectionSchema, remote, fetches, invocations, lastOk>>

MutationAnswered(c) ==
    /\ calls[c].pc = "awaitMutation"
    /\ \E resp \in RunResponses :
        calls' = [calls EXCEPT ![c] = RunResume(Answered(calls[c], resp), resp)]
    /\ UNCHANGED <<introspectionSchema, remote, fetches, invocations, lastOk>>

AggregateData(c) ==
    /\ CanInvoke(c)
    /\ invocations' = invocations + 1
    /\ \E tableName \in AggregateTables, aggregateFunction \in AggregateFunctions,
          field \in AggregateFields, filter \in AggregateFilters :
        calls' = [calls EXCEPT ![c] =
                    AggregateStart(Fresh("aggregate",
                        [tableName |-> tableName, aggregateFunction |-> aggregateFunction,
                         field |-> field, filter |-> filter]))]
    /\ UNCHANGED <<introspectionSchema, remote, fetches, lastOk>>

AggregateAnswered(c) ==
    /\ calls[c].pc = "awaitAggregate"
    /\ \E resp \in AggregateResponses(calls[c].args.tableName \o S__aggregate) :
        calls' = [calls EXCEPT ![c] = AggregateResume(Answered(calls[c], resp), resp)]
    /\ UNCHANGED <<introspectionSchema, remote, fetches, invocations, lastOk>>

\* inputs and answers of health_check
HealthEndpointUrls == {None, Some(U_healthz)}

HealthFetchResponses ==
    { Response(200, M_OK), Response(204, <<>>), Response(404, M_NotFound),
      Response(503, M_ServiceUnavailable), OtherError(M_fetch_failed) }

HealthProbeResponses ==
    { Data(<<[key |-> N___typename, value |-> N_query_root]>>) } \cup ErrorResponses

HealthCheck(c) ==
    /\ CanInvoke(c)
    /\ invocations' = invocations + 1
    /\ \E healthEndpointUrl \in HealthEndpointUrls :
        calls' = [calls EXCEPT ![c] =
                    HealthStart(Fresh("health", [healthEndpointUrl |-> healthEndpointUrl]))]
    /\ UNCHANGED <<introspectionSchema, remote, fetches, lastOk>>

HealthFetchAnswered(c) ==
    /\ calls[c].pc = "awaitHealthFetch"
    /\ \E resp \in HealthFetchResponses :
        calls' = [calls EXCEPT ![c] = HealthFetchResume(Answered(calls[c], resp), resp)]
    /\ UNCHANGED <<introspectionSchema, remote, fetches, invocations, lastOk>>

HealthProbeAnswered(c) ==
    /\ calls[c].pc = "awaitHealthProbe"
    /\ \E resp \in HealthProbeResponses :
        calls' = [calls EXCEPT ![c] = HealthProbeResume(Answered(calls[c], resp), resp)]
    /\ UNCHANGED <<introspectionSchema, remote, fetches, invocations, lastOk>>

\* the state after createServer: the cache Empty, nothing invoked; slots is
\* the number of invocations the host may have in flight at a time
InitWith(slots) ==
    /\ introspectionSchema = Null
    /\ remote \in 1..Len(Schemas)
    /\ calls = [c \in slots |-> Idle]
    /\ fetches = 0
    /\ invocations = 0
    /\ lastOk = 0

(***************************************************************************)
(* Spec: every handler with all its inputs, one invocation after another.  *)
(***************************************************************************)
Init == InitWith({1})

Next ==
    \/ \E c \in DOMAIN calls : ReadSchema(c)
    \/ \E c \in DOMAIN calls : PreviewTableData(c, PreviewTables, PreviewLimits)
    \/ \E c \in DOMAIN calls : DescribeTable(c, DescribeTables)
    \/ \E c \in DOMAIN calls : IntrospectionAnswered(c)
    \/ \E c \in DOMAIN calls : PreviewAnswered(c)
    \/ \E c \in DOMAIN calls : DescribeAnswered(c)
    \/ \E c \in DOMAIN calls : DescribeRetryAnswered(c)
    \/ \E c \in DOMAIN calls : RunGraphqlQuery(c)
    \/ \E c \in DOMAIN calls : RunGraphqlMutation(c)
    \/ \E c \in DOMAIN calls : QueryAnswered(c)
    \/ \E c \in DOMAIN calls : MutationAnswered(c)
    \/ \E c \in DOMAIN calls : AggregateData(c)
    \/ \E c \in DOMAIN calls : AggregateAnswered(c)
    \/ \E c \in DOMAIN calls : HealthCheck(c)
    \/ \E c \in DOMAIN calls : HealthFetchAnswered(c)
    \/ \E c \in DOMAIN calls : HealthProbeAnswered(c)
    \/ \E c \in DOMAIN calls : ListRootFields(c)

Spec == Init /\ [][Next]_vars

(***************************************************************************)
(* SpecConcurrent: the handlers that call getIntrospectionSchema, invoked  *)
(* while others are in flight.                                             *)
(***************************************************************************)
InitConcurrent == InitWith({1, 2})

NextConcurrent ==
    \/ \E c \in DOMAIN calls : ReadSchema(c)
    \/ \E c \in DOMAIN calls : PreviewTableData(c, {N_orders}, {5})
    \/ \E c \in DOMAIN calls : DescribeTable(c, {N_profile})
    \/ \E c \in DOMAIN calls : IntrospectionAnswered(c)
    \/ \E c \in DOMAIN calls : PreviewAnswered(c)
    \/ \E c \in DOMAIN calls : DescribeAnswered(c)
    \/ \E c \in DOMAIN calls : DescribeRetryAnswered(c)

SpecConcurrent == InitConcurrent /\ [][NextConcurrent]_vars

(***************************************************************************)
(* Properties of the schema cache.                                         *)
(***************************************************************************)
\* the handlers that start with `await getIntrospectionSchema()`
UsesSchema(call) == call.op \in {"resource", "preview", "describe"}

\* C1: once the cache has become Loaded the schema is never re-fetched: no
\* call that starts after the cache first became Loaded issues an
\* introspection fetch, and each such call is given the held schema.
C1_NeverRefetchedOnceLoaded ==
    \A c \in DOMAIN calls :
        (UsesSchema(calls[c]) /\ calls[c].afterLoaded) =>
            /\ calls[c].nfetch = 0
            /\ calls[c].schema # Null

\* the step in which the introspection fetch of call c fails
FetchFails(c) ==
    /\ calls[c].pc = "awaitSchema"
    /\ calls'[c].pc = "done"
    /\ calls'[c].schema = Null

\* the step in which a call to getIntrospectionSchema starts in slot c
SchemaCallStarts(c) ==
    /\ calls[c].pc \in {"idle", "done"}
    /\ invocations' = invocations + 1
    /\ <<calls'[c].op, calls'[c].pc, calls'[c].fetchId, calls'[c].afterLoaded>>
           # <<calls[c].op, calls[c].pc, calls[c].fetchId, calls[c].afterLoaded>>
    /\ UsesSchema(calls'[c])

\* the message of the failure behind an answer to the introspection fetch
CauseOf(answer) ==
    CASE answer = Data([schema |-> Null]) -> S_NoSchemaObject
      [] answer = OtherError(M_down) -> M_down
      [] answer = ClientError(None) ->
            S_GraphQLOperationFailed \o S_UnknownGraphQLError
      [] answer = ClientError(Some(<<M_denied, M_busy>>)) ->
            S_GraphQLOperationFailed \o M_denied \o <<",", " ">> \o M_busy

\* C2: a call on an Empty cache whose introspection fetch fails ends with
\* the cache Empty and with the error "Failed to get GraphQL schema: "
\* followed by the message of the cause, having issued its one fetch and no
\* other; and a call that starts on the Empty cache issues a fresh fetch.
C2_FailedFetchLeavesEmpty ==
    [][\A c \in DOMAIN calls :
        /\ FetchFails(c) =>
            /\ introspectionSchema' = Null
            /\ calls'[c].result =
                   Failed(S_FailedToGetSchema \o CauseOf(calls'[c].answers[1]))
            /\ calls'[c].nfetch = 1
            /\ calls'[c].sent = <<>>
            /\ fetches' = fetches
        /\ (SchemaCallStarts(c) /\ introspectionSchema = Null) =>
            /\ calls'[c].pc = "awaitSchema"
            /\ calls'[c].nfetch = 1
            /\ calls'[c].fetchId = fetches + 1
            /\ fetches' = fetches + 1]_vars

\* a first call failed its fetch, and the next call has issued a fresh one
C2_Witness ==
    /\ DOMAIN calls = {1, 2}
    /\ calls[2].pc = "idle"
    /\ invocations = 2
    /\ lastOk = 0
    /\ introspectionSchema = Null
    /\ calls[1].pc = "awaitSchema"
    /\ calls[1].fetchId = 2

C4_LastSuccessfulFetchWins ==
    (lastOk # 0 /\ \A c \in DOMAIN calls : calls[c].pc # "awaitSchema") =>
        introspectionSchema = [fetch |-> lastOk, content |-> remote]

(***************************************************************************)
(* Properties of run_graphql_query, run_graphql_mutation, aggregate_data.  *)
(***************************************************************************)
\* the documents of the model whose text, trimmed and lower-cased, starts
\* with "mutation"
MutationDocuments == {D_mutation, D_MutationSpaced, D_MUTATION, D_mutations}

\* C5: run_graphql_query given text that (trimmed, lower-cased) starts with
\* "mutation" fails with no network call; run_graphql_mutation given text
\* that does not, fails with no network call; in every other case the
\* handler hands the given document to the transport exactly once.
C5_OperationKindGate ==
    \A c \in DOMAIN calls :
        LET call == calls[c]
        IN  /\ call.op = "query" =>
                IF call.args.query \in MutationDocuments
                THEN call.pc = "done" /\ call.result.status = "error" /\ call.sent = <<>>
                ELSE call.sent = <<Request(call.args.query, call.args.variables)>>
            /\ call.op = "mutation" =>
                IF call.args.mutation \notin MutationDocuments
                THEN call.pc = "done" /\ call.result.status = "error" /\ call.sent = <<>>
                ELSE call.sent = <<Request(call.args.mutation, call.args.variables)>>

\* run_graphql_query has refused " Mutation M {a}\n" and sent nothing
C5_Witness ==
    \E c \in DOMAIN calls :
        /\ calls[c].op = "query"
        /\ calls[c].args.query = D_MutationSpaced
        /\ calls[c].pc = "done"
        /\ calls[c].result.status = "error"
        /\ calls[c].sent = <<>>

\* "aggregate { count }\n"
L_AggregateCount == <<"a","g","g","r","e","g","a","t","e"," ","{"," ","c","o","u","n","t"," ","}","\n">>
\* "($filter: "
L_FilterDeclaration == <<"(","$","f","i","l","t","e","r",":"," ">>
\* "_bool_exp!)"
L_BoolExpRequired == <<"_","b","o","o","l","_","e","x","p","!",")">>
\* "_aggregate(where: $filter)"
L_AggregateWhereFilter == <<"_","a","g","g","r","e","g","a","t","e","(","w","h","e","r","e",":"," ","$","f","i","l","t","e","r",")">>
\* "_aggregate()"
L_AggregateNoArguments == <<"_","a","g","g","r","e","g","a","t","e","(",")">>
\* " {\n        "
L_OperationOpens == <<" ","{","\n"," "," "," "," "," "," "," "," ">>

\* C6: aggregate_data with sum, avg, min or max and no field (absent or
\* empty) fails before any network call; with count and a field it does not
\* fail on that account and issues a document whose selection is
\* `aggregate { count }`, the field appearing nowhere in it.
C6_AggregateFieldRule ==
    \A c \in DOMAIN calls :
        LET call == calls[c]
            a == call.args
        IN  call.op = "aggregate" =>
            /\ (a.aggregateFunction \in {F_sum, F_avg, F_min, F_max}
                    /\ a.field \in {None, Some(<<>>)}) =>
                /\ call.pc = "done"
                /\ call.result.status = "error"
                /\ call.sent = <<>>
            /\ (a.aggregateFunction = F_count /\ a.field \in {Some(N_id), Some(N_total)}) =>
                /\ Len(call.sent) = 1
                /\ Contains(call.sent[1].query, L_AggregateCount)
                /\ ~Contains(call.sent[1].query, a.field.val)

\* a count with field "id" has been handed to the transport
C6_Witness ==
    \E c \in DOMAIN calls :
        /\ calls[c].op = "aggregate"
        /\ calls[c].args.aggregateFunction = F_count
        /\ calls[c].args.field = Some(N_id)
        /\ calls[c].pc = "awaitAggregate"
        /\ Len(calls[c].sent) = 1

\* C7: the root field of the aggregate document is <table>_aggregate; with
\* a filter the document declares exactly one variable,
\* $filter: <table>_bool_exp!, passes it as where: $filter on the root and
\* sends variables {filter}; without a filter it declares no variable,
\* passes no argument to the root and sends empty variables.
C7_AggregateDocumentShape ==
    \A c \in DOMAIN calls :
        LET call == calls[c]
            a == call.args
        IN  (call.op = "aggregate" /\ call.sent # <<>>) =>
            LET q == call.sent[1].query
                root == a.tableName \o S__aggregate
            IN  /\ Contains(q, L_OperationOpens \o root \o <<"(">>)
                /\ IF a.filter.some
                   THEN /\ Occurrences(q, <<"$">>) = 2
                        /\ Contains(q, L_FilterDeclaration \o a.tableName
                                           \o L_BoolExpRequired)
                        /\ Contains(q, a.tableName \o L_AggregateWhereFilter)
                        /\ call.sent[1].variables = Some(<<Var("filter", a.filter.val)>>)
                   ELSE /\ ~Contains(q, <<"$">>)
                        /\ Contains(q, a.tableName \o L_AggregateNoArguments)
                        /\ call.sent[1].variables = Some(<<>>)

\* avg of total on orders with a filter has been handed to the transport
C7_Witness ==
    \E c \in DOMAIN calls :
        /\ calls[c].op = "aggregate"
        /\ calls[c].args.tableName = N_orders
        /\ calls[c].args.aggregateFunction = F_avg
        /\ calls[c].args.field = Some(N_total)
        /\ calls[c].args.filter = Some(<<Var("state", "paid")>>)
        /\ calls[c].pc = "awaitAggregate"

(***************************************************************************)
(* Properties of preview_table_data and describe_table.                    *)
(***************************************************************************)
\* t is n wrapper layers around a SCALAR or an ENUM
RECURSIVE ScalarLikeUnder(_, _)
ScalarLikeUnder(t, n) ==
    IF n = 0 THEN t.kind \in {"SCALAR", "ENUM"}
    ELSE t.kind \in {"NON_NULL", "LIST"} /\ ScalarLikeUnder(t.ofType, n - 1)
ScalarLike(t) == \E n \in 0..6 : ScalarLikeUnder(t, n)

\* "' not found"
L_NotFound == <<"'"," ","n","o","t"," ","f","o","u","n","d">>
\* "(limit: $limit) { "
L_LimitArgument ==
    <<"(","l","i","m","i","t",":"," ","$","l","i","m","i","t",")"," ","{"," ">>

\* C8: for a table name that is an OBJECT type of the cached schema the
\* selection is exactly the names of the fields whose type, every NON_NULL
\* and LIST layer taken off, is a SCALAR or an ENUM, in declared order, or
\* the single field __typename if there is none; any other name fails as
\* not found and no data query is executed.
C8_PreviewSelection ==
    \A c \in DOMAIN calls :
        LET call == calls[c]
            types == Schemas[remote].types
        IN  (call.op = "preview" /\ call.schema # Null) =>
            LET t == call.args.tableName
                objects == {i \in 1..Len(types) :
                                types[i].name = t /\ types[i].kind = "OBJECT"}
            IN  IF objects = {}
                THEN /\ call.pc = "done"
                     /\ call.result.status = "error"
                     /\ Contains(call.result.message, <<"'">> \o t \o L_NotFound)
                     /\ call.sent = <<>>
                ELSE LET fields == types[CHOOSE i \in objects : TRUE].fields
                         scalar == {i \in 1..Len(fields) : ScalarLike(fields[i].type)}
                     IN  /\ IF scalar = {}
                            THEN call.selection = <<N___typename>>
                            ELSE /\ Len(call.selection) = Cardinality(scalar)
                                 /\ \A k \in 1..Len(call.selection) :
                                      \E i \in scalar :
                                        /\ Cardinality({j \in scalar : j < i}) = k - 1
                                        /\ call.selection[k] = fields[i].name
                         /\ Len(call.sent) = 1
                         /\ Contains(call.sent[1].query,
                                     <<"{", " ">> \o t \o L_LimitArgument
                                        \o Join(call.selection, S_FieldSeparator)
                                        \o <<" ", "}", " ", "}">>)
                         /\ (remote = 1 /\ t = N_orders) =>
                                call.selection = <<N_id, N_name, N_tags, N_state>>
                         /\ (remote = 1 /\ t = N_Profile) =>
                                call.selection = <<N___typename>>

\* the preview of orders {id: Int!, name: String, tags: [String!]!,
\* profile: Profile, state: order_state!} selects id, name, tags, state
C8_Witness ==
    \E c \in DOMAIN calls :
        /\ calls[c].op = "preview"
        /\ calls[c].args.tableName = N_orders
        /\ remote = 1
        /\ calls[c].pc = "awaitPreview"
        /\ calls[c].selection = <<N_id, N_name, N_tags, N_state>>

\* the names describe_table is given, with the first character upper-cased
N_Grid == <<"G","r","i","d">>
N_Missing == <<"M","i","s","s","i","n","g">>
FirstUpper(t) ==
    CASE t = N_orders -> N_Orders
      [] t = N_Orders -> N_Orders
      [] t = N_profile -> N_Profile
      [] t = N_grid -> N_Grid
      [] t = N_Int -> N_Int
      [] t = N_missing -> N_Missing

\* the answers to the data requests of a call (after the answer to its
\* introspection fetch, if it issued one)
DataAnswers(call) == SubSeq(call.answers, call.nfetch + 1, Len(call.answers))

NoType(answer) == answer = Data([type |-> Null])

\* C9: describe_table executes the description query with the exact
\* tableName first; only if that yields no type, once more with the first
\* character upper-cased; never a third time; no retry when the first
\* attempt yields a type; and when both yield no type it fails with a
\* not-found error naming the original tableName.
C9_DescribeLookupProtocol ==
    \A c \in DOMAIN calls :
        LET call == calls[c]
            t == call.args.tableName
            da == DataAnswers(call)
        IN  call.op = "describe" =>
            /\ Len(call.sent) <= 2
            /\ \A i \in 1..Len(call.sent) : call.sent[i].query = S_tableTypeQuery
            /\ Len(call.sent) >= 1 =>
                   call.sent[1].variables = Some(<<Var("typeName", t)>>)
            /\ Len(call.sent) = 2 <=> (Len(da) >= 1 /\ NoType(da[1]))
            /\ Len(call.sent) = 2 =>
                   call.sent[2].variables = Some(<<Var("typeName", FirstUpper(t))>>)
            /\ (Len(da) >= 1 /\ da[1].kind = "data" /\ ~NoType(da[1])) =>
                   call.pc = "done" /\ Len(call.sent) = 1
            /\ (Len(da) = 2 /\ NoType(da[2])) =>
                   /\ call.pc = "done"
                   /\ call.result.status = "error"
                   /\ Contains(call.result.message, <<"'">> \o t \o L_NotFound)

\* "missing" was looked up, then "Missing", and the call failed as not found
C9_Witness ==
    \E c \in DOMAIN calls :
        /\ calls[c].op = "describe"
        /\ calls[c].args.tableName = N_missing
        /\ Len(calls[c].sent) = 2
        /\ calls[c].sent[2].variables = Some(<<Var("typeName", N_Missing)>>)
        /\ calls[c].pc = "done"
        /\ calls[c].result.status = "error"

\* the GraphQL notation of a type reference: [...] for each LIST layer and
\* ! for each NON_NULL layer, each at its own place
RECURSIVE RenderTypeSyntax(_)
RenderTypeSyntax(t) ==
    IF t.kind = "LIST" THEN <<"[">> \o RenderTypeSyntax(t.ofType) \o <<"]">>
    ELSE IF t.kind = "NON_NULL" THEN RenderTypeSyntax(t.ofType) \o <<"!">>
    ELSE t.name

\* C10: the `type` text of every describe_table column is the bracket/bang
\* notation of the column's type reference, one [...] per LIST layer and one
\* ! per NON_NULL layer at its own position.
C10_TypeRendering ==
    \A c \in DOMAIN calls :
        LET call == calls[c]
        IN  (call.op = "describe" /\ call.pc = "done" /\ call.result.status = "ok") =>
            LET asked == call.sent[Len(call.sent)].variables.val[1].value
                type == Find(Schemas[remote].types, LAMBDA x : x.name = asked)
                columns == call.result.value.table.columns
            IN  \A k \in 1..Len(columns) :
                    \E i \in 1..Len(type.fields) :
                        /\ type.fields[i].name = columns[k].name
                        /\ columns[k].type = RenderTypeSyntax(type.fields[i].type)

(***************************************************************************)
(* Properties of health_check.                                             *)
(***************************************************************************)
\* the messages behind an answer to health_check's one request that makes
\* it fail: the transport's message, each GraphQL error message, the status
\* and its text
HealthCauses(answer) ==
    CASE answer.kind = "error" -> {answer.message}
      [] answer.kind = "clientError" ->
            IF answer.errors.some
            THEN {answer.errors.val[i] : i \in 1..Len(answer.errors.val)}
            ELSE {}
      [] answer.kind = "response" ->
            IF answer.status = 404 THEN {<<"4", "0", "4">>, answer.statusText}
            ELSE IF answer.status = 503 THEN {<<"5", "0", "3">>, answer.statusText}
            ELSE {}
      [] OTHER -> {}

\* an answer that is a failure: no response, GraphQL errors, or a status
\* outside 200..299
HealthFailure(answer) ==
    \/ answer.kind \in {"error", "clientError"}
    \/ answer.kind = "response" /\ ~(answer.status \in 200..299)

\* C11: health_check never ends in a thrown error.  When its request (the
\* HTTP GET of the given URL, or the GraphQL probe when none is given) fails
\* by a transport failure, a GraphQL error or a non-OK status, it returns a
\* text that starts with "Health check failed: " and contains the underlying
\* message; when the request succeeds it returns a text that starts with
\* "Health check successful. ".
C11_HealthCheckNeverThrows ==
    \A c \in DOMAIN calls :
        LET call == calls[c]
        IN  (call.op = "health" /\ call.pc = "done") =>
                /\ call.result.status = "ok"
                /\ Len(call.answers) = 1
                /\ IF HealthFailure(call.answers[1])
                   THEN /\ StartsWith(call.result.value.text, S_HealthCheckFailed)
                        /\ \A m \in HealthCauses(call.answers[1]) :
                              Contains(call.result.value.text, m)
                   ELSE /\ StartsWith(call.result.value.text, S_HealthCheckSuccessful)
                        /\ ~Contains(call.result.value.text, S_HealthCheckFailed)

\* a health_check with no URL whose probe met a transport failure has returned
C11_Witness ==
    \E c \in DOMAIN calls :
        /\ calls[c].op = "health" /\ calls[c].pc = "done"
        /\ calls[c].args.healthEndpointUrl = None
        /\ calls[c].answers[1] = OtherError(M_down)
        /\ calls[c].result.status = "ok"
        /\ StartsWith(calls[c].result.value.text, S_HealthCheckFailed \o M_down)

(***************************************************************************)
(* Properties of list_root_fields.                                         *)
(***************************************************************************)
OperationKinds == {"QUERY", "MUTATION", "SUBSCRIPTION"}

\* the names of the fields of the schema's root of a kind, in schema order;
\* none when the schema has no root of that kind
RootNamesOf(schema, kind) ==
    LET rootType == CASE kind = "QUERY" -> schema.queryType
                      [] kind = "MUTATION" -> schema.mutationType
                      [] kind = "SUBSCRIPTION" -> schema.subscriptionType
        fields == IF rootType.some THEN RootFields(schema, rootType.val) ELSE <<>>
    IN  [i \in 1..Len(fields) |-> fields[i].name]

NamesOf(entries) == [i \in 1..Len(entries) |-> entries[i].name]

\* names in ascending order
Ascending(names) ==
    \A i, j \in 1..Len(names) : i < j => localeCompare(names[i], names[j]) <= 0

\* the same names, each as many times
SameNames(a, b) ==
    /\ Len(a) = Len(b)
    /\ \A i \in 1..Len(a) :
          Cardinality({k \in 1..Len(a) : a[k] = a[i]})
              = Cardinality({k \in 1..Len(b) : b[k] = a[i]})

\* the listing a list_root_fields call returned, with the schema it read
Listed(call) ==
    call.op = "rootFields" /\ call.pc = "done" /\ call.result.status = "ok"

\* the part of the listing for a given kind: that root's fields and no
\* others, in ascending order of name, empty when there is no such root
GivenKindListing(call) ==
    LET names == NamesOf(call.result.value)
        root == RootNamesOf(Schemas[call.schema.content], call.args.fieldType.val)
    IN  SameNames(names, root) /\ Ascending(names)

\* C12: list_root_fields with a kind returns only that root's fields sorted
\* by name ascending, and an empty sequence when the schema has no root of
\* that kind; without a kind it returns the fields of every root that
\* exists, each entry tagged by its origin, and the entries of each origin
\* are that root's fields in ascending order of name.
C12_ListRootFields ==
    \A c \in DOMAIN calls :
        LET call == calls[c]
            entries == call.result.value
        IN  Listed(call) =>
                IF call.args.fieldType.some THEN GivenKindListing(call)
                ELSE /\ \A i \in 1..Len(entries) :
                            /\ "origin" \in DOMAIN entries[i]
                            /\ entries[i].origin \in OperationKinds
                     /\ \A kind \in OperationKinds :
                            LET group == SelectSeq(entries, LAMBDA e : e.origin = kind)
                            IN  /\ SameNames(NamesOf(group),
                                             RootNamesOf(Schemas[call.schema.content], kind))
                                /\ Ascending(NamesOf(group))

=============================================================================
